---- MODULE Spec2Model ----
(***************************************************************************)
(* The chat widget (class Chat) and the plugin panel (class PluginToggle)  *)
(* of src/unnamed/part_000 as state machines.                              *)
(*                                                                         *)
(* Spec        : the Chat component: its message list, the POSTs it sends  *)
(*               and the handlers the host event loop dispatches to it.    *)
(* SpecPlugins : the PluginToggle component: its plugin list, the          *)
(*               fetchPlugins calls in flight and the submit requests.     *)
(***************************************************************************)
EXTENDS Integers, Sequences, FiniteSets

VARIABLES
    messages,    \* Chat.messages: sequence of [content, sender]
    requests,    \* the fetch() calls of _addMessage: [body, status]
    threw,       \* whether the handler invocation that ran last raised
    calls,       \* history: the handler invocations, in arrival order
    appendedBy,  \* history: per entry of messages, the index in calls of the
                 \* invocation that appended it
    plugins,     \* PluginToggle.plugins: sequence of [name, enabled]
    fetches,     \* the fetchPlugins() calls: [stage, body]
    posts,       \* the fetch('/update-plugins') calls of handleSubmit
    alerts,      \* the alert() texts shown by handleSubmit
    resolved,    \* history: indexes of fetches, in the order they assigned plugins
    dirty,       \* history: a handleToggle ran since the last assignment
    discarded    \* history: an assignment replaced a list that had been toggled

chatVars == <<messages, requests, threw, calls, appendedBy>>
pluginVars == <<plugins, fetches, posts, alerts, resolved, dirty, discarded>>
vars == <<messages, requests, threw, calls, appendedBy,
          plugins, fetches, posts, alerts, resolved, dirty, discarded>>

----------------------------------------------------------------------------
(* Bounds and input domains *)

MaxCalls == 3
MaxFetches == 2
MaxSubmits == 1

Contents == {"hi", "Done"}
Senders == {"user", "ai"}
Commands == {"search"}
SoFars == {"ca", "cat"}
Urls == {"http://x/y.png"}

----------------------------------------------------------------------------
(* JavaScript values *)

\* The value undefined (what reading a missing property yields).
undefined == "<undefined>"

\* String coercion in `+` and in template literals.
ToString(v) == IF v = undefined THEN "undefined" ELSE v

\* obj.field on a parsed JSON object.
Get(obj, field) == IF field \in DOMAIN obj THEN obj[field] ELSE undefined

EmptyObj == [f \in {} |-> ""]

\* event.data as JSON.parse sees it: text that does not parse, the text
\* "null", or the text of an object with some of its fields.
BadJson == [kind |-> "bad", obj |-> EmptyObj]
JsonNull == [kind |-> "null", obj |-> EmptyObj]
JsonObject(o) == [kind |-> "object", obj |-> o]

FieldValues(f) ==
    CASE f = "content" -> Contents
      [] f = "url" -> Urls
      [] f = "command" -> Commands
      [] f = "so_far" -> SoFars

Objects(fields) ==
    UNION { {o \in [D -> Contents \cup Urls \cup Commands \cup SoFars] :
                \A f \in D : o[f] \in FieldValues(f)} : D \in SUBSET fields }

EventData(fields) == {BadJson, JsonNull} \cup {JsonObject(o) : o \in Objects(fields)}

Details == [content : Contents, sender : Senders]

----------------------------------------------------------------------------
(* The handlers of Chat, as functions of the message list and the event *)

Throw(msgs) == [messages |-> msgs, fetch |-> <<>>, threw |-> TRUE]
Return(msgs) == [messages |-> msgs, fetch |-> <<>>, threw |-> FALSE]

\* _addMessage with the sender written as the literal 'user'.
_addMessage_fixedSender(msgs, detail) ==
    [messages |-> Append(msgs, [content |-> detail.content, sender |-> "user"]),
     fetch |-> IF detail.sender = "user"
               THEN << [message |-> detail.content] >> ELSE << >>,
     threw |-> FALSE]

\* _addMessage without the test of sender before the fetch.
_addMessage_alwaysFetch(msgs, detail) ==
    [messages |-> Append(msgs, [content |-> detail.content, sender |-> detail.sender]),
     fetch |-> << [message |-> detail.content] >>,
     threw |-> FALSE]

\* Chat._addMessage: append {content, sender}; POST when sender is 'user'.
_addMessage(msgs, detail) ==
    [messages |-> Append(msgs, [content |-> detail.content, sender |-> detail.sender]),
     fetch |-> IF detail.sender = "user"
               THEN << [message |-> detail.content] >> ELSE << >>,
     threw |-> FALSE]

\* _partialCmd without the test of the last sender.
_partialCmd_overwriteAny(msgs, data) ==
    IF data.kind = "bad" \/ Len(msgs) = 0 \/ data.kind = "null" THEN Throw(msgs)
    ELSE Return([msgs EXCEPT ![Len(msgs)] =
                    [content |-> ToString(Get(data.obj, "command")) \o ": "
                                   \o ToString(Get(data.obj, "so_far")),
                     sender |-> "ai"]])

\* _partialCmd writing to index 0 instead of length-1.
_partialCmd_overwriteFirst(msgs, data) ==
    IF data.kind = "bad" \/ Len(msgs) = 0 \/ data.kind = "null" THEN Throw(msgs)
    ELSE LET m1 == IF msgs[Len(msgs)].sender # "ai"
                   THEN Append(msgs, [content |-> "", sender |-> "ai"])
                   ELSE msgs
         IN Return([m1 EXCEPT ![1].content =
                        ToString(Get(data.obj, "command")) \o ": "
                          \o ToString(Get(data.obj, "so_far"))])

\* Chat._partialCmd.
_partialCmd(msgs, data) ==
    IF data.kind = "bad" THEN Throw(msgs)          \* JSON.parse raises
    ELSE IF Len(msgs) = 0 THEN Throw(msgs)         \* messages[-1] is undefined
    ELSE LET m1 == IF msgs[Len(msgs)].sender # "ai"
                   THEN Append(msgs, [content |-> "", sender |-> "ai"])
                   ELSE msgs
         IN IF data.kind = "null" THEN Throw(m1)   \* null.command raises
            ELSE Return([m1 EXCEPT ![Len(m1)].content =
                            ToString(Get(data.obj, "command")) \o ": "
                              \o ToString(Get(data.obj, "so_far"))])

_aiMessage(msgs, data) ==
    IF data.kind \in {"bad", "null"} THEN Throw(msgs)
    ELSE Return(Append(msgs, [content |-> Get(data.obj, "content"), sender |-> "ai"]))

ImageMarkup(url) == "<img src=\"" \o ToString(url) \o "\" alt=\"image\">"

_imageMsg(msgs, data) ==
    IF data.kind \in {"bad", "null"} THEN Throw(msgs)
    ELSE Return(Append(msgs, [content |-> ImageMarkup(Get(data.obj, "url")),
                              sender |-> "ai"]))

----------------------------------------------------------------------------
(* Chat: state machine *)

InitChat ==
    /\ messages = <<>>
    /\ requests = <<>>
    /\ threw = FALSE
    /\ calls = <<>>
    /\ appendedBy = <<>>

\* One handler invocation: r is what the handler computed.
Dispatch(op, arg, r) ==
    /\ Len(calls) < MaxCalls
    /\ messages' = r.messages
    /\ requests' = requests \o [i \in 1..Len(r.fetch) |->
                                   [body |-> r.fetch[i], status |-> "pending"]]
    /\ threw' = r.threw
    /\ calls' = Append(calls, [op |-> op, arg |-> arg])
    /\ appendedBy' = IF Len(r.messages) > Len(messages)
                     THEN Append(appendedBy, Len(calls) + 1) ELSE appendedBy
    /\ UNCHANGED pluginVars

AddMessage == \E detail \in Details :
    Dispatch("addmessage", detail, _addMessage(messages, detail))

AiMessage == \E data \in EventData({"content"}) :
    Dispatch("new_message", data, _aiMessage(messages, data))

ImageMsg == \E data \in EventData({"url"}) :
    Dispatch("image", data, _imageMsg(messages, data))

PartialCmd == \E data \in EventData({"command", "so_far"}) :
    Dispatch("partial_command", data, _partialCmd(messages, data))

\* The POST of _addMessage completes; nothing in Chat observes it.
SendSettles == \E i \in 1..Len(requests), outcome \in {"fulfilled", "rejected"} :
    /\ requests[i].status = "pending"
    /\ requests' = [requests EXCEPT ![i].status = outcome]
    /\ UNCHANGED <<messages, threw, calls, appendedBy>>
    /\ UNCHANGED pluginVars

NextChat == AddMessage \/ AiMessage \/ ImageMsg \/ PartialCmd \/ SendSettles

----------------------------------------------------------------------------
(* PluginToggle *)

Names == <<"a", "b">>

\* The bodies /get-plugins answers with: no plugin, or the two plugins with
\* one of them enabled. Each name is listed once.
Responses ==
    { [i \in 1..n |-> [name |-> Names[i], enabled |-> e[i]]] :
        e \in {<<TRUE, FALSE>>, <<FALSE, TRUE>>}, n \in {0, 2} }

\* fetchPlugins assigning only while nothing is loaded.
fetchPlugins_keepLoaded(cur, body) == IF cur = <<>> THEN body ELSE cur

\* this.plugins = await response.json()
fetchPlugins(cur, body) == body

\* plugin.enabled = event.target.checked, plugin the i-th of the list
handleToggle(cur, i, checked) == [cur EXCEPT ![i].enabled = checked]

\* this.plugins.reduce((acc, plugin) => { acc[plugin.name] = plugin.enabled; ... }, {})
RECURSIVE Reduce(_, _)
Reduce(cur, acc) ==
    IF cur = <<>> THEN acc
    ELSE LET p == Head(cur)
         IN Reduce(Tail(cur),
                   [n \in DOMAIN acc \cup {p.name} |->
                       IF n = p.name THEN p.enabled ELSE acc[n]])

handleSubmit(cur) == [plugins |-> Reduce(cur, EmptyObj)]

InitPlugins ==
    /\ plugins = <<>>
    /\ fetches = << [stage |-> "fetching", body |-> <<>>] >>
    /\ posts = <<>>
    /\ alerts = <<>>
    /\ resolved = <<>>
    /\ dirty = FALSE
    /\ discarded = FALSE

HandleCancel ==
    /\ Len(fetches) < MaxFetches
    /\ fetches' = Append(fetches, [stage |-> "fetching", body |-> <<>>])
    /\ UNCHANGED <<plugins, posts, alerts, resolved, dirty, discarded>>
    /\ UNCHANGED chatVars

\* await fetch('/get-plugins') yields a response
FetchResponds == \E i \in 1..Len(fetches), body \in Responses :
    /\ fetches[i].stage = "fetching"
    /\ fetches' = [fetches EXCEPT ![i] = [stage |-> "parsing", body |-> body]]
    /\ UNCHANGED <<plugins, posts, alerts, resolved, dirty, discarded>>
    /\ UNCHANGED chatVars

\* fetch() or response.json() rejects: fetchPlugins ends without assigning
FetchFails == \E i \in 1..Len(fetches) :
    /\ fetches[i].stage \in {"fetching", "parsing"}
    /\ fetches' = [fetches EXCEPT ![i] = [stage |-> "rejected", body |-> <<>>]]
    /\ UNCHANGED <<plugins, posts, alerts, resolved, dirty, discarded>>
    /\ UNCHANGED chatVars

\* await response.json() yields the list, which is assigned
FetchResolves == \E i \in 1..Len(fetches) :
    /\ fetches[i].stage = "parsing"
    /\ plugins' = fetchPlugins(plugins, fetches[i].body)
    /\ fetches' = [fetches EXCEPT ![i].stage = "fulfilled"]
    /\ resolved' = Append(resolved, i)
    /\ dirty' = FALSE
    /\ discarded' = (discarded \/ dirty)
    /\ UNCHANGED <<posts, alerts>>
    /\ UNCHANGED chatVars

HandleToggle == \E i \in 1..Len(plugins), checked \in BOOLEAN :
    /\ plugins' = handleToggle(plugins, i, checked)
    /\ dirty' = TRUE
    /\ UNCHANGED <<fetches, posts, alerts, resolved, discarded>>
    /\ UNCHANGED chatVars

HandleSubmit ==
    /\ Len(posts) < MaxSubmits
    /\ posts' = Append(posts, [body |-> handleSubmit(plugins), status |-> "pending"])
    /\ UNCHANGED <<plugins, fetches, alerts, resolved, dirty, discarded>>
    /\ UNCHANGED chatVars

\* await fetch('/update-plugins') yields a response: one of the two alerts
SubmitResponds == \E i \in 1..Len(posts), ok \in BOOLEAN :
    /\ posts[i].status = "pending"
    /\ posts' = [posts EXCEPT ![i].status = IF ok THEN "ok" ELSE "not ok"]
    /\ alerts' = Append(alerts, IF ok THEN "Plugins updated successfully"
                                      ELSE "Failed to update plugins")
    /\ UNCHANGED <<plugins, fetches, resolved, dirty, discarded>>
    /\ UNCHANGED chatVars

\* fetch('/update-plugins') rejects: no alert
SubmitFails == \E i \in 1..Len(posts) :
    /\ posts[i].status = "pending"
    /\ posts' = [posts EXCEPT ![i].status = "rejected"]
    /\ UNCHANGED <<plugins, fetches, alerts, resolved, dirty, discarded>>
    /\ UNCHANGED chatVars

NextPlugins ==
    \/ HandleCancel \/ FetchResponds \/ FetchFails \/ FetchResolves
    \/ HandleToggle \/ HandleSubmit \/ SubmitResponds \/ SubmitFails

----------------------------------------------------------------------------

Init == InitChat /\ InitPlugins

Spec == Init /\ [][NextChat]_vars

SpecPlugins == Init /\ [][NextPlugins]_vars

----------------------------------------------------------------------------
(* Vocabulary of the claims *)

\* This step is one invocation of the handler of op.
Invoked(op) == Len(calls') = Len(calls) + 1 /\ calls'[Len(calls')].op = op

\* The event (or the submit detail) the handler invoked in this step got.
Arg == calls'[Len(calls')].arg

\* The payload parsed to an object that has every field of fields.
WellFormed(data, fields) == data.kind = "object" /\ fields \subseteq DOMAIN data.obj

Expected(op) ==
    CASE op = "new_message" -> {"content"}
      [] op = "image" -> {"url"}
      [] op = "partial_command" -> {"command", "so_far"}

ServerOps == {"new_message", "image", "partial_command"}

\* "<command>: <soFar>" of a well-formed partial_command event.
PartialText(data) == data.obj["command"] \o ": " \o data.obj["so_far"]

AiEntry(content) == [content |-> content, sender |-> "ai"]

IsOnPartialCommand(c) ==
    c.op = "partial_command" /\ WellFormed(c.arg, Expected("partial_command"))

IsOnFinalMessage(c) ==
    c.op = "new_message" /\ WellFormed(c.arg, Expected("new_message"))

IsOnImageMessage(c) ==
    c.op = "image" /\ WellFormed(c.arg, Expected("image"))

IsOnUserSubmit(c) == c.op = "addmessage" /\ c.arg.sender = "user"

\* One of the four operations, called with the arguments it expects.
IsOperation(c) ==
    \/ c.op = "addmessage"
    \/ IsOnFinalMessage(c) \/ IsOnImageMessage(c) \/ IsOnPartialCommand(c)

----------------------------------------------------------------------------
(* C1: onPartialCommand(command, soFar) never fails, in any state including
   the empty list: it appends one empty "ai" entry when the list is empty or
   its last sender is not "ai" (otherwise the length stays), and the last
   entry is then {"<command>: <soFar>", "ai"}. *)
C1_PartialCmdTotal ==
    [][ (Invoked("partial_command") /\ WellFormed(Arg, Expected("partial_command")))
        => /\ ~threw'
           /\ Len(messages') =
                 IF messages = <<>> \/ messages[Len(messages)].sender # "ai"
                 THEN Len(messages) + 1 ELSE Len(messages)
           /\ messages'[Len(messages')] = AiEntry(PartialText(Arg)) ]_vars

(* C2: an entry appended by onFinalMessage or onImageMessage keeps its
   content and sender under every later operation, also under an
   onPartialCommand that finds it last. *)
C2_FinalEntriesImmutable ==
    [][ (Len(calls') = Len(calls) + 1 /\ IsOperation(calls'[Len(calls')]))
        => \A i \in 1..Len(messages) :
              (\/ IsOnFinalMessage(calls[appendedBy[i]])
               \/ IsOnImageMessage(calls[appendedBy[i]]))
              => (i <= Len(messages') /\ messages'[i] = messages[i]) ]_vars

(* C3: every operation leaves the length or raises it by one, and keeps
   every entry that was not the last one in place and unchanged: nothing is
   removed or reordered. *)
C3_AppendOnlyButLast ==
    [][ /\ Len(messages') \in {Len(messages), Len(messages) + 1}
        /\ \A i \in 1..(Len(messages) - 1) : messages'[i] = messages[i] ]_vars

\* Three invocations, the third a partial command that rewrote the second
\* entry in place behind a user entry.
C3_Witness ==
    /\ Len(calls) = 3 /\ Len(messages) = 2 /\ ~threw
    /\ IsOnPartialCommand(calls[3])
    /\ messages[1].sender = "user"
    /\ messages[2] = AiEntry("search: cat")

(* C4: from the empty list, a non-empty run of onPartialCommand calls alone
   leaves exactly one entry, {"<command>: <soFar>" of the last call, "ai"}. *)
C4_PartialRunIsOneEntry ==
    (calls # <<>> /\ \A i \in 1..Len(calls) : IsOnPartialCommand(calls[i]))
    => messages = << AiEntry(PartialText(calls[Len(calls)].arg)) >>

(* C5: onFinalMessage(content) and onImageMessage(url) each append exactly
   one "ai" entry (the content, resp. the image markup of url) and change no
   other entry; n such calls from the empty list give length n; and
   onPartialCommand("search","cat") then onFinalMessage("Done") from the
   empty list gives [{"search: cat", ai}, {"Done", ai}]. *)
C5_FinalAndImageAppend ==
    /\ [][ /\ (Invoked("new_message") /\ WellFormed(Arg, Expected("new_message")))
              => (~threw' /\ messages' = Append(messages, AiEntry(Arg.obj["content"])))
           /\ (Invoked("image") /\ WellFormed(Arg, Expected("image")))
              => (~threw' /\ messages' =
                     Append(messages, AiEntry("<img src=\"" \o Arg.obj["url"]
                                                \o "\" alt=\"image\">"))) ]_vars
    /\ []((\A i \in 1..Len(calls) :
              IsOnFinalMessage(calls[i]) \/ IsOnImageMessage(calls[i]))
          => Len(messages) = Len(calls))
    /\ []((/\ Len(calls) = 2
           /\ IsOnPartialCommand(calls[1])
           /\ PartialText(calls[1].arg) = "search: cat"
           /\ IsOnFinalMessage(calls[2])
           /\ calls[2].arg.obj["content"] = "Done")
          => messages = << AiEntry("search: cat"), AiEntry("Done") >>)

(* C6 as stated: every submit appends exactly one entry with sender "user"
   and the submitted text, whatever else the event carries, and the outcome
   of the POST never changes the list. *)
C6_SubmitAlwaysUser ==
    [][ /\ Invoked("addmessage")
           => (~threw' /\ messages' =
                  Append(messages, [content |-> Arg.content, sender |-> "user"]))
        /\ (calls' = calls) => (messages' = messages) ]_vars

(* C6 as amended: every submit appends exactly one entry with the submitted
   text and the sender the submit event carries, without failing, and a POST
   completing (fulfilled or rejected) or staying pending never changes the
   list. *)
C6_SubmitAppendsEventSender ==
    [][ /\ Invoked("addmessage")
           => (~threw' /\ messages' =
                  Append(messages, [content |-> Arg.content, sender |-> Arg.sender]))
        /\ (calls' = calls) => (messages' = messages) ]_vars

\* Two user submits whose POSTs failed resp. never completed, then a submit
\* that carries sender "ai": all three entries are in the list.
C6_Witness ==
    /\ Len(requests) = 2
    /\ requests[1].status = "rejected" /\ requests[2].status = "pending"
    /\ Len(messages) = 3
    /\ messages[1].sender = "user" /\ messages[2].sender = "user"
    /\ calls[appendedBy[3]].op = "addmessage" /\ messages[3].sender = "ai"

(* C7: an onPartialCommand right after an onUserSubmit appends exactly one
   entry {"<command>: <soFar>", "ai"}, and the user entry before it keeps its
   content and sender "user". *)
C7_PartialAfterSubmitAppends ==
    [][ (/\ calls # <<>>
         /\ IsOnUserSubmit(calls[Len(calls)])
         /\ Invoked("partial_command")
         /\ WellFormed(Arg, Expected("partial_command")))
        => /\ ~threw'
           /\ messages' = Append(messages, AiEntry(PartialText(Arg)))
           /\ messages'[Len(messages)] =
                 [content |-> calls[Len(calls)].arg.content, sender |-> "user"] ]_vars

C7_Witness ==
    /\ Len(calls) = 2
    /\ IsOnUserSubmit(calls[1]) /\ IsOnPartialCommand(calls[2])
    /\ messages = << [content |-> "hi", sender |-> "user"], AiEntry("search: cat") >>

\* The bodies of the POSTs the user submissions among cs call for, in order.
RECURSIVE UserBodies(_)
UserBodies(cs) ==
    IF cs = <<>> THEN <<>>
    ELSE (IF IsOnUserSubmit(Head(cs))
          THEN << [message |-> Head(cs).arg.content] >> ELSE <<>>)
         \o UserBodies(Tail(cs))

(* C8: the POSTs issued are exactly one per user submission (a submit whose
   sender is "user"), with body {message: content}, in submission order; the
   server-event handlers issue none. *)
C8_OnePostPerSubmission ==
    [i \in 1..Len(requests) |-> requests[i].body] = UserBodies(calls)

\* Two submissions with a server event in between: two POSTs, in order.
C8_Witness ==
    /\ Len(calls) = 3
    /\ IsOnUserSubmit(calls[1]) /\ calls[2].op \in ServerOps /\ IsOnUserSubmit(calls[3])
    /\ Len(requests) = 2
    /\ requests[1].body = [message |-> "hi"]
    /\ requests[2].body = [message |-> "Done"]

(* C9: a server event whose payload does not parse or lacks its expected
   field is dropped: the handler does not raise and the list is unchanged. *)
C9_MalformedEventDropped ==
    [][ \A op \in ServerOps :
            (Invoked(op) /\ ~WellFormed(Arg, Expected(op)))
            => (~threw' /\ messages' = messages) ]_vars

(* C10: in PluginToggle every resolution of a fetchPlugins call replaces the
   whole list by its response, so while no handleToggle has run since the
   last resolution the list is the response of the fetch that resolved last,
   whatever the order the fetches were started in; any other change of the
   list is one handleToggle, which changes the enabled flag of one plugin
   only; handleSubmit sends each listed plugin's name mapped to its enabled
   flag. *)
C10_LastResolutionWins ==
    [][ /\ (resolved' # resolved)
           => plugins' = fetches[resolved'[Len(resolved')]].body
        /\ (resolved' # <<>> /\ ~dirty')
           => plugins' = fetches'[resolved'[Len(resolved')]].body
        /\ (resolved' = resolved /\ plugins' # plugins)
           => /\ Len(plugins') = Len(plugins)
              /\ \E i \in 1..Len(plugins) :
                    /\ plugins'[i].name = plugins[i].name
                    /\ \A j \in 1..Len(plugins) : j # i => plugins'[j] = plugins[j]
        /\ (Len(posts') > Len(posts))
           => LET body == posts'[Len(posts')].body.plugins
              IN /\ DOMAIN body = {plugins[i].name : i \in 1..Len(plugins)}
                 /\ \A i \in 1..Len(plugins) : body[plugins[i].name] = plugins[i].enabled
      ]_vars

\* The fetch started second resolved first and the constructor's fetch last,
\* with another response, over a list that had been toggled: the list is the
\* constructor's response, and a submit has been sent.
C10_Witness ==
    /\ resolved = <<2, 1>> /\ ~dirty /\ discarded
    /\ fetches[1].body # fetches[2].body
    /\ plugins = fetches[1].body /\ plugins # <<>>
    /\ posts # <<>>

====
